---- MODULE Spec2Model ----
(***************************************************************************)
(* A model of the manapoolsheet repository: the report sorter              *)
(* (manapoolsheet.sort_cards), the paginated order retriever and the       *)
(* status updater (quick_fulfillment_updater), the location mapping of the *)
(* picklist GUI and of the report generator, the image cache of the report *)
(* generator, and the price lookup, the picking progress, the filters and  *)
(* the card widgets of the picklist GUI.                                   *)
(*                                                                         *)
(* Python strings are sequences of character codes, so that lower(),       *)
(* upper() and the lexicographic comparison of strings are computed.       *)
(***************************************************************************)
EXTENDS Integers, Sequences, FiniteSets, TLC

VARIABLES
    cards,        \* sort_cards: the list object `cards`, sorted in place
    sortInput,    \* sort_cards: the list as it was passed in
    sortArgs,     \* sort_cards: sort_by, order, secondary_*, tertiary_*
    sortPc,       \* "ready" before the call, "sorted" after it returned
    credentials,  \* get_unfulfilled_orders: MANAPOOL_EMAIL and MANAPOOL_ACCESS_TOKEN are set
    serverRows,   \* the marketplace: the number of order rows it holds
    statusCycle,  \* the marketplace: the fulfillment statuses of its rows, repeating
    offset,       \* get_unfulfilled_orders: offset
    orders,       \* get_unfulfilled_orders: orders
    requests,     \* the GET requests issued so far: <<offset, outcome>>
    examined,     \* the ids of the rows the for loop has examined, in order
    fetchPc,      \* "start", "loop", "returned" or "exit" (sys.exit(1))
    program,      \* which program runs: "gui" (picklist_gui.py) or "cli" (manapoolsheet.py)
    locationsFile,  \* locations.json: [exists, malformed, content]
    locations,    \* PicklistGUI.locations
    guiCards,     \* PicklistGUI.cards: <<[set_code, location]>>
    guiEvent,     \* the handler that ran last: "none", "init", "load_picklist", "save_locations"
    lastSaved,    \* the label last saved through Manage Locations, by upper-cased set code
    fileWritten,  \* locations.json was opened for writing during this run of the GUI
    loadedKeys,   \* the keys of PicklistGUI.locations when load_locations returned
    drawerFile,   \* inventory_locations.json: [exists, malformed, keyed, drawer_mapping]
    drawer_mapping,  \* main: drawer_mapping
    cliCards,     \* main: cards, as <<[set_code, location]>>
    cliPc,        \* "start", "mapped" (mapping loaded), "processed", "crashed" (uncaught exception)
    imageFiles,   \* card_images/: the URL each existing file was downloaded from, by path
    removedPaths, \* the paths of card_images/ that were deleted from disk at some time
    imageEvent,   \* what happened last to the image cache: "none", "resolve", "remove"
    lastResolve,  \* the last image resolution: its row, its calls and its result
    price_cache,  \* PicklistGUI.price_cache
    workers,      \* the threads running load_price_with_delay: position and locals of each
    firstReturned,  \* by card, the value the first finished fetch_card_price returned
    pickCards,    \* PicklistGUI.cards: <<[order, name, grabbed, has_var]>>
    grabbed_cards,  \* PicklistGUI.grabbed_cards
    current_filter, \* PicklistGUI.current_filter
    search_var,   \* PicklistGUI.search_var: the text of the search entry
    displayed,    \* the indices of the cards that have a widget on screen
    progressFile, \* the progress file: [has_states, card_states, grabbed_cards]
    progressEvent,  \* the handler that ran last
    progressError,  \* the last load_progress ended in its except clause
    savedCards,   \* PicklistGUI.cards as they were when save_progress last ran
    resume,       \* "saved", "reloaded", "restored": how far a pause and resume has got
    renders,      \* the number of display_cards calls so far
    loaders,      \* the running load_with_delay and load_price_with_delay threads
    afterQueue,   \* the callbacks given to root.after that have not run yet
    image_cache,  \* PicklistGUI.image_cache: its keys
    mutations,    \* the label.config calls made so far
    mainPc,       \* quick_fulfillment_updater.main: "fetching", "menu", "select", "confirm",
                  \* "updating", "done", "returned" or "crashed" (uncaught exception)
    new_status,   \* main: new_status
    selected,     \* main: selected
    tracking,     \* main: tracking
    confirm,      \* main: confirm
    pending,      \* main: what is left of sorted(selected)
    success,      \* main: success
    failed,       \* main: failed
    putRequests   \* the PUT requests issued so far

sortVars == <<cards, sortInput, sortArgs, sortPc>>

fetchVars == <<credentials, serverRows, statusCycle, offset, orders, requests, examined, fetchPc>>

locVars == <<program, locationsFile, locations, guiCards, guiEvent, lastSaved,
             fileWritten, loadedKeys, drawerFile, drawer_mapping, cliCards, cliPc>>

imageVars == <<imageFiles, removedPaths, imageEvent, lastResolve>>

priceVars == <<price_cache, workers, firstReturned>>

progressVars == <<pickCards, grabbed_cards, current_filter, search_var, displayed, progressFile,
                  progressEvent, progressError, savedCards, resume>>

widgetVars == <<renders, loaders, afterQueue, image_cache, mutations>>

updaterVars == <<mainPc, new_status, selected, tracking, confirm, pending, success, failed,
                 putRequests>>

vars == <<sortVars, fetchVars, locVars, imageVars, priceVars, progressVars, widgetVars,
          updaterVars>>

\* What the operations of one program leave alone: the state of the others.
exceptSort ==
    <<fetchVars, locVars, imageVars, priceVars, progressVars, widgetVars, updaterVars>>

exceptFetch ==
    <<sortVars, locVars, imageVars, priceVars, progressVars, widgetVars, updaterVars>>

exceptLoc ==
    <<sortVars, fetchVars, imageVars, priceVars, progressVars, widgetVars, updaterVars>>

exceptImage ==
    <<sortVars, fetchVars, locVars, priceVars, progressVars, widgetVars, updaterVars>>

exceptPrice ==
    <<sortVars, fetchVars, locVars, imageVars, progressVars, widgetVars, updaterVars>>

exceptProgress ==
    <<sortVars, fetchVars, locVars, imageVars, priceVars, widgetVars, updaterVars>>

exceptWidgets ==
    <<sortVars, fetchVars, locVars, imageVars, priceVars, progressVars, updaterVars>>

exceptUpdater ==
    <<sortVars, fetchVars, locVars, imageVars, priceVars, progressVars, widgetVars>>

-----------------------------------------------------------------------------
(* Strings *)

Range(s) == {s[i] : i \in 1..Len(s)}

Min(a, b) == IF a < b THEN a ELSE b

\* str.lower() on one character: "A".."Z" become "a".."z".
LowerChar(c) == IF c \in 65..90 THEN c + 32 ELSE c

\* str.upper() on one character: "a".."z" become "A".."Z".
UpperChar(c) == IF c \in 97..122 THEN c - 32 ELSE c

Lower(s) == [i \in 1..Len(s) |-> LowerChar(s[i])]

Upper(s) == [i \in 1..Len(s) |-> UpperChar(s[i])]

\* Python's < on two str values: lexicographic by code point.
RECURSIVE StrLess(_, _)
StrLess(s, t) ==
    IF s = <<>> THEN t # <<>>
    ELSE IF t = <<>> THEN FALSE
    ELSE IF Head(s) # Head(t) THEN Head(s) < Head(t)
    ELSE StrLess(Tail(s), Tail(t))

IsDigit(c) == c \in 48..57

\* The value of a non-empty string of decimal digits.
RECURSIVE DigitsValue(_)
DigitsValue(s) ==
    IF s = <<>> THEN 0
    ELSE 10 * DigitsValue(SubSeq(s, 1, Len(s) - 1)) + (s[Len(s)] - 48)

\* str.replace(ch, "") for a one-character pattern.
RemoveChar(s, ch) == SelectSeq(s, LAMBDA c : c # ch)

\* The strings used as field values.
sEmpty == <<>>
sNA == <<78, 47, 65>>          \* "N/A"
sZZZ == <<90, 90, 90>>         \* "ZZZ"

-----------------------------------------------------------------------------
(* manapoolsheet.py: the Card dataclass.  A list of cards holds references *)
(* to Card objects; an object is named by its index in Catalogue.          *)

Card(name, set_name, quantity, condition, rarity, location, price, card_type, colors) ==
    [name |-> name, set_name |-> set_name, quantity |-> quantity,
     condition |-> condition, rarity |-> rarity, location |-> location,
     price |-> price, card_type |-> card_type, colors |-> colors]

\* The Card objects of a run.  Names tie in pairs once lower-cased ("A"/"a",
\* "b"/"B"); every other field ties on a different set of cards; the prices
\* "9" and "10" order differently as numbers and as strings, "$9" parses to
\* the value of "9" and "N/A" to zero; the types "La" and "ar" order
\* differently raw and lower-cased; the empty colour sorts as "ZZZ".
\*          name     set_name quantity    condition   rarity   location    price       card_type    colors
Catalogue ==
    << Card(<<65>>, <<88>>, <<53>>,     <<78, 77>>, <<114>>, <<66, 49>>, <<57>>,     <<76, 97>>,  <<87>>),
       Card(<<98>>, <<89>>, <<49>>,     <<76, 80>>, <<117>>, <<66, 49>>, <<49, 48>>, <<97, 114>>, <<>>),
       Card(<<97>>, <<89>>, <<49, 48>>, <<78, 77>>, <<114>>, <<66, 50>>, <<36, 57>>, <<>>,        <<85>>),
       Card(<<66>>, <<88>>, <<49>>,     <<78, 77>>, <<114>>, <<66, 50>>, sNA,        <<108, 97>>, <<>>) >>

-----------------------------------------------------------------------------
(* manapoolsheet.py: parse_price, parse_quantity, create_sort_key_factory *)

\* parse_price: 0.0 for "" and "N/A"; otherwise float() of the string with "$"
\* and "," removed, and 0.0 when float() raises ValueError.  Prices here are
\* strings over digits, "$", "," and letters, so float() succeeds exactly on
\* the non-empty digit strings.
parse_price(price_str) ==
    IF price_str # sEmpty /\ price_str # sNA
    THEN LET t == RemoveChar(RemoveChar(price_str, 36), 44)
         IN  IF t # <<>> /\ \A i \in 1..Len(t) : IsDigit(t[i])
             THEN DigitsValue(t)
             ELSE 0
    ELSE 0

\* parse_quantity: int() of the string, 1 when int() raises.
parse_quantity(quantity_str) ==
    IF quantity_str # <<>> /\ \A i \in 1..Len(quantity_str) : IsDigit(quantity_str[i])
    THEN DigitsValue(quantity_str)
    ELSE 1

\* A sort key is a str or a float; k.num tells which.
StrKey(s) == [num |-> FALSE, s |-> s, n |-> 0]
NumKey(n) == [num |-> TRUE, s |-> <<>>, n |-> n]

KeyLess(a, b) == IF a.num THEN a.n < b.n ELSE StrLess(a.s, b.s)

SortFields ==
    {"location", "set", "name", "condition", "rarity", "price", "card_type", "color"}

NoneVal == "None"

\* create_sort_key_factory(sort_field)(card)
get_sort_key(sort_field, c) ==
    LET card == Catalogue[c] IN
    IF sort_field = "location" THEN StrKey(card.location)
    ELSE IF sort_field = "set" THEN StrKey(card.set_name)
    ELSE IF sort_field = "name" THEN StrKey(Lower(card.name))
    ELSE IF sort_field = "condition" THEN StrKey(card.condition)
    ELSE IF sort_field = "rarity" THEN StrKey(card.rarity)
    ELSE IF sort_field = "price" THEN NumKey(parse_price(card.price))
    ELSE IF sort_field = "card_type"
         THEN StrKey(IF card.card_type # <<>> THEN Lower(card.card_type) ELSE <<>>)
    ELSE IF sort_field = "color"
         THEN StrKey(IF card.colors # <<>> THEN card.colors ELSE sZZZ)
    ELSE StrKey(<<>>)

-----------------------------------------------------------------------------
(* list.sort(key=..., reverse=...): a stable sort.  With reverse=True the  *)
(* keys descend and equal keys still keep their original order.            *)

\* x sorts strictly before y.
Before(kx, ky, reverse) == IF reverse THEN KeyLess(ky, kx) ELSE KeyLess(kx, ky)

\* Insert x into the sorted sequence s, behind every element it does not
\* strictly precede.
RECURSIVE InsertStable(_, _, _, _)
InsertStable(s, x, key, reverse) ==
    IF s = <<>> THEN <<x>>
    ELSE IF Before(key[x], key[s[Len(s)]], reverse)
         THEN Append(InsertStable(SubSeq(s, 1, Len(s) - 1), x, key, reverse), s[Len(s)])
         ELSE Append(s, x)

RECURSIVE ListSort(_, _, _)
ListSort(s, key, reverse) ==
    IF s = <<>> THEN <<>>
    ELSE InsertStable(ListSort(SubSeq(s, 1, Len(s) - 1), key, reverse),
                      s[Len(s)], key, reverse)

\* Counter(card.location for card in cards)[loc]
location_counts(cs, loc) ==
    Cardinality({i \in 1..Len(cs) : Catalogue[cs[i]].location = loc})

name_key(cs) == [c \in Range(cs) |-> StrKey(Lower(Catalogue[c].name))]

field_key(cs, f) == [c \in Range(cs) |-> get_sort_key(f, c)]

get_location_count(cs) == 
    [c \in Range(cs) |-> NumKey(location_counts(cs, Catalogue[c].location))]

\* sort_cards without its first pass, the sort by name.
sort_cards_without_name_pass(cs, a) ==
    LET s1 == IF a.tertiary_sort # NoneVal
              THEN ListSort(cs, field_key(cs, a.tertiary_sort), a.tertiary_order = "desc")
              ELSE cs
        s2 == IF a.secondary_sort # NoneVal
              THEN ListSort(s1, field_key(cs, a.secondary_sort), a.secondary_order = "desc")
              ELSE s1
    IN  IF a.sort_by = "location"
        THEN ListSort(s2, get_location_count(cs), a.order = "desc")
        ELSE ListSort(s2, field_key(cs, a.sort_by), a.order = "desc")

\* sort_cards with the secondary pass before the tertiary pass.
sort_cards_passes_swapped(cs, a) ==
    LET s0 == ListSort(cs, name_key(cs), FALSE)
        s1 == IF a.secondary_sort # NoneVal
              THEN ListSort(s0, field_key(cs, a.secondary_sort), a.secondary_order = "desc")
              ELSE s0
        s2 == IF a.tertiary_sort # NoneVal
              THEN ListSort(s1, field_key(cs, a.tertiary_sort), a.tertiary_order = "desc")
              ELSE s1
    IN  IF a.sort_by = "location"
        THEN ListSort(s2, get_location_count(cs), a.order = "desc")
        ELSE ListSort(s2, field_key(cs, a.sort_by), a.order = "desc")

\* sort_cards: four stable passes, lowest priority first.
sort_cards(cs, a) ==
    LET s0 == ListSort(cs, name_key(cs), FALSE)
        s1 == IF a.tertiary_sort # NoneVal
              THEN ListSort(s0, field_key(cs, a.tertiary_sort), a.tertiary_order = "desc")
              ELSE s0
        s2 == IF a.secondary_sort # NoneVal
              THEN ListSort(s1, field_key(cs, a.secondary_sort), a.secondary_order = "desc")
              ELSE s1
    IN  IF a.sort_by = "location"
        THEN ListSort(s2, get_location_count(cs), a.order = "desc")
        ELSE ListSort(s2, field_key(cs, a.sort_by), a.order = "desc")

-----------------------------------------------------------------------------
(* The inputs of sort_cards *)

MaxCards == 3

\* The lists of at most MaxCards distinct Card objects, in every arrangement.
CardLists ==
    UNION {{g \in [1..n -> DOMAIN Catalogue] : \A i, j \in 1..n : i # j => g[i] # g[j]} :
           n \in 0..MaxCards}

Orders == {"asc", "desc"}

\* The command line: --sort-by and --order, and the optional secondary and
\* tertiary fields, each with its order.
Level == {[sort |-> NoneVal, order |-> "asc"]} \cup [sort : SortFields, order : Orders]

SortArgs ==
    {[sort_by |-> f, order |-> o,
      secondary_sort |-> s.sort, secondary_order |-> s.order,
      tertiary_sort |-> t.sort, tertiary_order |-> t.order] :
        f \in SortFields, o \in Orders, s \in Level, t \in Level}

NoArgs == [sort_by |-> NoneVal, order |-> "asc",
           secondary_sort |-> NoneVal, secondary_order |-> "asc",
           tertiary_sort |-> NoneVal, tertiary_order |-> "asc"]

SortInit ==
    /\ sortInput \in CardLists
    /\ cards = sortInput
    /\ sortArgs = NoArgs
    /\ sortPc = "ready"

\* main: cards = sort_cards(cards, args.sort_by, args.order, ...)
SortCards ==
    /\ sortPc = "ready"
    /\ \E a \in SortArgs :
          /\ sortArgs' = a
          /\ cards' = sort_cards(cards, a)
    /\ sortPc' = "sorted"
    /\ UNCHANGED <<sortInput, exceptSort>>

SortNext == SortCards

\* The default mode, --sort-by location, on lists of up to MaxLocationCards.
MaxLocationCards == 4

LocationCardLists ==
    UNION {{g \in [1..n -> DOMAIN Catalogue] : \A i, j \in 1..n : i # j => g[i] # g[j]} :
           n \in 0..MaxLocationCards}

SortLocationInit ==
    /\ sortInput \in LocationCardLists
    /\ cards = sortInput
    /\ sortArgs = NoArgs
    /\ sortPc = "ready"

SortCardsByLocation ==
    /\ sortPc = "ready"
    /\ \E a \in {x \in SortArgs : x.sort_by = "location"} :
          /\ sortArgs' = a
          /\ cards' = sort_cards(cards, a)
    /\ sortPc' = "sorted"
    /\ UNCHANGED <<sortInput, exceptSort>>

SortLocationNext == SortCardsByLocation

-----------------------------------------------------------------------------
(* quick_fulfillment_updater.py: get_unfulfilled_orders *)

\* limit=100 of the request, the full page of `len(batch) < 100` and the step
\* of `offset += 100`.
PageSize == 100

MaxRows == 201

Statuses == {NoneVal, "", "processing", "unfulfilled", "shipped", "delivered"}

\* The rows of the marketplace: row i of serverRows, its status taken from the
\* repeating pattern statusCycle.  A row without the status field reads None.
StatusOf(i) == statusCycle[((i - 1) % Len(statusCycle)) + 1]

Row(i) == [id |-> i, label |-> i, total_cents |-> 199 * i,
           latest_fulfillment_status |-> StatusOf(i)]

\* GET orders?limit=100&offset=o: the rows o+1 .. o+limit that exist.
ServerPage(o) == [k \in 1..(Min(serverRows, o + PageSize) - Min(serverRows, o)) |-> Row(o + k)]

\* A filter that only leaves out the shipped rows.
StatusNotShipped(status) == status # "shipped"

\* status in (None, '', 'processing', 'unfulfilled')
StatusAccepted(status) == status \in {NoneVal, "", "processing", "unfulfilled"}

\* The dict appended for an accepted row: total is "$d.cc", status is
\* `status or 'unfulfilled'`.
OrderEntry(order) ==
    [id |-> order.id, label |-> order.label,
     total |-> <<order.total_cents \div 100, order.total_cents % 100>>,
     status |-> IF order.latest_fulfillment_status \in {NoneVal, ""}
                THEN "unfulfilled" ELSE order.latest_fulfillment_status]

\* for order in batch: append the accepted rows.
RECURSIVE AppendAccepted(_, _)
AppendAccepted(acc, batch) ==
    IF batch = <<>> THEN acc
    ELSE AppendAccepted(
            IF StatusAccepted(Head(batch).latest_fulfillment_status)
            THEN Append(acc, OrderEntry(Head(batch))) ELSE acc,
            Tail(batch))

\* A last-page test that is off by one.
IsLastPageOffByOne(batch) == Len(batch) <= PageSize

\* if len(batch) < 100: break
IsLastPage(batch) == Len(batch) < PageSize

\* offset += 100
NextOffset(o) == o + PageSize

FetchInit ==
    /\ credentials \in BOOLEAN
    /\ serverRows \in 0..MaxRows
    /\ statusCycle \in [1..2 -> Statuses]
    /\ offset = 0
    /\ orders = <<>>
    /\ requests = <<>>
    /\ examined = <<>>
    /\ fetchPc = "start"

\* Lines 10-21: without credentials sys.exit(1) before any request.
CheckCredentials ==
    /\ fetchPc = "start"
    /\ fetchPc' = IF credentials THEN "loop" ELSE "exit"
    /\ orders' = <<>>
    /\ offset' = 0
    /\ UNCHANGED <<credentials, serverRows, statusCycle, requests, examined, exceptFetch>>

\* One iteration of `while True` whose request succeeds and whose payload
\* holds the page under 'orders'.
FetchPage ==
    /\ fetchPc = "loop"
    /\ LET batch == ServerPage(offset)
       IN  /\ requests' = Append(requests, <<offset, "ok">>)
           /\ IF batch = <<>>
              THEN /\ fetchPc' = "returned"
                   /\ UNCHANGED <<orders, examined, offset>>
              ELSE /\ orders' = AppendAccepted(orders, batch)
                   /\ examined' = examined \o [k \in 1..Len(batch) |-> batch[k].id]
                   /\ IF IsLastPage(batch)
                      THEN fetchPc' = "returned" /\ UNCHANGED offset
                      ELSE fetchPc' = "loop" /\ offset' = NextOffset(offset)
    /\ UNCHANGED <<credentials, serverRows, statusCycle, exceptFetch>>

\* An iteration whose payload is a JSON object without 'orders':
\* data.get('orders', []) is empty and the loop breaks.
FetchPageWithoutOrders ==
    /\ fetchPc = "loop"
    /\ requests' = Append(requests, <<offset, "no orders key">>)
    /\ fetchPc' = "returned"
    /\ UNCHANGED <<credentials, serverRows, statusCycle, orders, examined, offset, exceptFetch>>

\* An iteration that raises (timeout, connection error, HTTP error status,
\* undecodable body, a row without 'id'): except Exception: sys.exit(1).
FetchPageRaises ==
    /\ fetchPc = "loop"
    /\ requests' = Append(requests, <<offset, "error">>)
    /\ fetchPc' = "exit"
    /\ UNCHANGED <<credentials, serverRows, statusCycle, orders, examined, offset, exceptFetch>>

FetchNext ==
    \/ CheckCredentials
    \/ FetchPage
    \/ FetchPageWithoutOrders
    \/ FetchPageRaises

-----------------------------------------------------------------------------
(* The location mapping: picklist_gui.py (locations.json) and              *)
(* manapoolsheet.py (inventory_locations.json)                             *)

\* dict.get(k, default) and d[k] = v
DictGet(d, k, default) == IF k \in DOMAIN d THEN d[k] ELSE default

DictPut(d, k, v) == [x \in DOMAIN d \cup {k} |-> IF x = k THEN v ELSE d[x]]

EmptyDict == [x \in {} |-> ""]

\* The set codes of the rows of a CSV: "", "NE", "ne", "DM".
SetCodes == {<<>>, <<78, 69>>, <<110, 101>>, <<68, 77>>}

Labels == {"Drawer 1", "Drawer 2"}

MaxCsvRows == 2

CsvFiles == UNION {[1..n -> SetCodes] : n \in 0..MaxCsvRows}

\* The mappings a persisted file holds when a run starts: upper-case keys.
PersistedMappings ==
    UNION {[K -> Labels] : K \in SUBSET {k \in SetCodes : k # <<>> /\ k = Upper(k)}}

\* PicklistGUI.get_location_for_set
get_location_for_set(locs, set_code) ==
    IF set_code = <<>> THEN "Unknown"
    ELSE DictGet(locs, Upper(set_code), "Unassigned")

\* load_locations on an existing file: json.load(f), and {} when json.load
\* raises (except Exception).
load_locations(file) == IF file.malformed THEN EmptyDict ELSE file.content

\* PicklistGUI.__init__ -> load_locations: read locations.json, or create it
\* holding {} when it does not exist.  Starting the program again is a new
\* run: no cards are loaded.
GuiInit ==
    /\ program = "gui"
    /\ IF locationsFile.exists
       THEN /\ locations' = load_locations(locationsFile)
            /\ loadedKeys' = DOMAIN load_locations(locationsFile)
            /\ fileWritten' = FALSE
            /\ UNCHANGED locationsFile
       ELSE /\ locations' = EmptyDict
            /\ loadedKeys' = {}
            /\ locationsFile' = [exists |-> TRUE, malformed |-> FALSE, content |-> EmptyDict]
            /\ fileWritten' = TRUE
    /\ guiCards' = <<>>
    /\ guiEvent' = "init"
    /\ UNCHANGED <<program, lastSaved, drawerFile, drawer_mapping, cliCards, cliPc,
                   exceptLoc>>

\* PicklistGUI.load_picklist on a CSV whose rows have the set codes csv.
LoadPicklist ==
    /\ program = "gui"
    /\ guiEvent # "none"
    /\ \E csv \in CsvFiles :
          guiCards' = [k \in 1..Len(csv) |->
                          [set_code |-> csv[k],
                           location |-> get_location_for_set(locations, csv[k])]]
    /\ guiEvent' = "load_picklist"
    /\ UNCHANGED <<program, locationsFile, locations, lastSaved, fileWritten, loadedKeys,
                   drawerFile, drawer_mapping, cliCards, cliPc, exceptLoc>>

\* The set codes Manage Locations shows an entry for.
ManagedSetCodes ==
    {guiCards[k].set_code : k \in {i \in 1..Len(guiCards) :
                                      guiCards[i].set_code # <<>> /\ guiCards[i].set_code # sNA}}

\* for set_code, var in location_vars.items(): self.locations[set_code] = var.get()
RECURSIVE StoreEntries(_, _, _)
StoreEntries(locs, codes, entries) ==
    IF codes = {} THEN locs
    ELSE LET c == CHOOSE x \in codes : TRUE
         IN  StoreEntries(DictPut(locs, c, entries[c]), codes \ {c}, entries)

\* manage_locations.save_locations: the operator has left or edited the entry
\* of every set code; all entries are stored and written to locations.json,
\* and every card whose set code is a key takes the stored label.
SaveLocations ==
    /\ program = "gui"
    /\ guiEvent # "none"
    /\ \E entries \in [ManagedSetCodes -> Labels \cup {"Unassigned"}] :
          LET new == StoreEntries(locations, ManagedSetCodes, entries)
          IN  /\ locations' = new
              /\ locationsFile' = [exists |-> TRUE, malformed |-> FALSE, content |-> new]
              /\ guiCards' = [k \in 1..Len(guiCards) |->
                                 IF guiCards[k].set_code \in DOMAIN new
                                 THEN [guiCards[k] EXCEPT !.location = new[guiCards[k].set_code]]
                                 ELSE guiCards[k]]
              /\ lastSaved' = [u \in DOMAIN lastSaved \cup {Upper(x) : x \in ManagedSetCodes} |->
                                  IF \E x \in ManagedSetCodes : Upper(x) = u
                                  THEN entries[CHOOSE x \in ManagedSetCodes :
                                                  /\ Upper(x) = u
                                                  /\ \A y \in ManagedSetCodes :
                                                        Upper(y) = u => ~StrLess(x, y)]
                                  ELSE lastSaved[u]]
    /\ fileWritten' = TRUE
    /\ guiEvent' = "save_locations"
    /\ UNCHANGED <<program, loadedKeys, drawerFile, drawer_mapping, cliCards, cliPc, exceptLoc>>

\* load_drawer_mapping_safe(DRAWER_FILE): data.get("drawer_mapping", {}), and
\* {} when the file does not exist.
load_drawer_mapping_safe(file) ==
    IF file.exists
    THEN (IF file.keyed THEN file.drawer_mapping ELSE EmptyDict)
    ELSE EmptyDict

\* json.load raises JSONDecodeError, which load_drawer_mapping_safe does not
\* catch and main does not either.
load_drawer_mapping_raises(file) == file.exists /\ file.malformed

LoadDrawerMapping ==
    /\ program = "cli"
    /\ cliPc = "start"
    /\ IF load_drawer_mapping_raises(drawerFile)
       THEN cliPc' = "crashed" /\ UNCHANGED drawer_mapping
       ELSE /\ drawer_mapping' = load_drawer_mapping_safe(drawerFile)
            /\ cliPc' = "mapped"
    /\ UNCHANGED <<program, locationsFile, locations, guiCards, guiEvent, lastSaved,
                   fileWritten, loadedKeys, drawerFile, cliCards, exceptLoc>>

\* location = drawer_mapping.get(set_code, "Unknown")
resolve_location(mapping, set_code) == DictGet(mapping, set_code, "Unknown")

\* process_shipstation_data on a CSV whose rows (all with a card name) have
\* the set codes csv.
ProcessShipstationData ==
    /\ program = "cli"
    /\ cliPc = "mapped"
    /\ \E csv \in CsvFiles :
          cliCards' = [k \in 1..Len(csv) |->
                          [set_code |-> csv[k],
                           location |-> resolve_location(drawer_mapping, csv[k])]]
    /\ cliPc' = "processed"
    /\ UNCHANGED <<program, locationsFile, locations, guiCards, guiEvent, lastSaved,
                   fileWritten, loadedKeys, drawerFile, drawer_mapping, exceptLoc>>

LocationsInit ==
    /\ program \in {"gui", "cli"}
    /\ locationsFile \in
          IF program = "gui"
          THEN {[exists |-> FALSE, malformed |-> FALSE, content |-> EmptyDict]}
               \cup {[exists |-> TRUE, malformed |-> FALSE, content |-> m] : m \in PersistedMappings}
               \cup {[exists |-> TRUE, malformed |-> TRUE, content |-> EmptyDict]}
          ELSE {[exists |-> FALSE, malformed |-> FALSE, content |-> EmptyDict]}
    /\ locations = EmptyDict
    /\ guiCards = <<>>
    /\ guiEvent = "none"
    /\ lastSaved = EmptyDict
    /\ fileWritten = FALSE
    /\ loadedKeys = {}
    /\ drawerFile \in
          IF program = "cli"
          THEN {[exists |-> FALSE, malformed |-> FALSE, keyed |-> FALSE, drawer_mapping |-> EmptyDict],
                [exists |-> TRUE, malformed |-> FALSE, keyed |-> FALSE, drawer_mapping |-> EmptyDict]}
               \cup {[exists |-> TRUE, malformed |-> FALSE, keyed |-> TRUE, drawer_mapping |-> m] :
                        m \in PersistedMappings}
               \cup {[exists |-> TRUE, malformed |-> TRUE, keyed |-> FALSE,
                       drawer_mapping |-> EmptyDict]}
          ELSE {[exists |-> FALSE, malformed |-> FALSE, keyed |-> FALSE, drawer_mapping |-> EmptyDict]}
    /\ drawer_mapping = EmptyDict
    /\ cliCards = <<>>
    /\ cliPc = "start"

LocationsNext ==
    \/ GuiInit
    \/ LoadPicklist
    \/ SaveLocations
    \/ LoadDrawerMapping
    \/ ProcessShipstationData

LocationsIdle ==
    /\ program = "none"
    /\ locationsFile = [exists |-> FALSE, malformed |-> FALSE, content |-> EmptyDict]
    /\ locations = EmptyDict
    /\ guiCards = <<>>
    /\ guiEvent = "none"
    /\ lastSaved = EmptyDict
    /\ fileWritten = FALSE
    /\ loadedKeys = {}
    /\ drawerFile = [exists |-> FALSE, malformed |-> FALSE, keyed |-> FALSE, drawer_mapping |-> EmptyDict]
    /\ drawer_mapping = EmptyDict
    /\ cliCards = <<>>
    /\ cliPc = "start"

FetchIdle ==
    /\ credentials = FALSE
    /\ serverRows = 0
    /\ statusCycle = <<>>
    /\ offset = 0
    /\ orders = <<>>
    /\ requests = <<>>
    /\ examined = <<>>
    /\ fetchPc = "idle"

SortIdle ==
    /\ cards = <<>>
    /\ sortInput = <<>>
    /\ sortArgs = NoArgs
    /\ sortPc = "idle"

-----------------------------------------------------------------------------
(* manapoolsheet.py: the image cache card_images/                          *)
(* (sanitize_for_filename, infer_file_extension, download_and_cache_image, *)
(* get_card_data_from_scryfall, process_shipstation_data)                  *)

\* str.isalnum() on one character.
IsAlnum(c) == c \in 48..57 \/ c \in 65..90 \/ c \in 97..122

\* str.rstrip(): trailing whitespace removed.
RECURSIVE RStrip(_)
RStrip(s) ==
    IF s # <<>> /\ s[Len(s)] \in {9, 10, 13, 32}
    THEN RStrip(SubSeq(s, 1, Len(s) - 1))
    ELSE s

\* str.replace(a, b) for single characters a and b.
ReplaceChar(s, a, b) == [i \in 1..Len(s) |-> IF s[i] = a THEN b ELSE s[i]]

sanitize_for_filename(text) ==
    LET safe_text == RStrip(SelectSeq(text, LAMBDA c : IsAlnum(c) \/ c \in {32, 45, 95}))
    IN  ReplaceChar(safe_text, 32, 95)

\* The largest index of ch in s, 0 when s does not hold ch.
LastIndexOf(s, ch) ==
    IF \E i \in 1..Len(s) : s[i] = ch
    THEN CHOOSE i \in 1..Len(s) : s[i] = ch /\ \A j \in (i + 1)..Len(s) : s[j] # ch
    ELSE 0

\* os.path.splitext(path)[1]: from the last dot of the last path component,
\* unless that component has only dots before it.
splitext(path) ==
    LET slash == LastIndexOf(path, 47)
        dot == LastIndexOf(path, 46)
    IN  IF dot > slash /\ \E i \in (slash + 1)..(dot - 1) : path[i] # 46
        THEN SubSeq(path, dot, Len(path))
        ELSE <<>>

sJpg == <<46, 106, 112, 103>>   \* ".jpg"

\* An image URL is held as urlparse() splits it; only the path is read.
infer_file_extension(image_url) ==
    IF splitext(image_url.path) # <<>> THEN splitext(image_url.path) ELSE sJpg

\* local_path of download_and_cache_image, below CACHE_DIR.
local_path(image_url, card_name, set_code) ==
    sanitize_for_filename(card_name) \o <<95>> \o ReplaceChar(set_code, 47, 95)
        \o infer_file_extension(image_url)

\* A row of the CSV, as far as the image is concerned.
ImageRow(card_name, set_code, collector_number) ==
    [card_name |-> card_name, set_code |-> set_code, collector_number |-> collector_number]

\* The rows: "a b" (S, 1), "a b" (S, 2), "a_b!" (S, no collector number) and
\* "c " (T/U, 3).
ImageRows ==
    { ImageRow(<<97, 32, 98>>, <<83>>, <<49>>),
      ImageRow(<<97, 32, 98>>, <<83>>, <<50>>),
      ImageRow(<<97, 95, 98, 33>>, <<83>>, <<>>),
      ImageRow(<<99, 32>>, <<84, 47, 85>>, <<51>>) }

\* The image the reference service holds for the card of a row: a URL whose
\* path names the card, "/l/<number>.jpg", "/l.x/0" for the card without a
\* collector number, "/l/3.png".
ServiceImage(row) ==
    [card |-> row,
     path |-> IF row.collector_number = <<>> THEN <<47, 108, 46, 120, 47, 48>>
              ELSE IF row.collector_number = <<51>>
                   THEN <<47, 108, 47, 51, 46, 112, 110, 103>>
                   ELSE <<47, 108, 47>> \o row.collector_number \o sJpg]

NoUrl == [card |-> ImageRow(<<>>, <<>>, <<>>), path |-> <<>>]

\* len(build_scryfall_queries(card_name, set_code, collector_number))
QueryCount(row) == IF row.collector_number # <<>> THEN 3 ELSE 2

\* The file the image of a row is cached in.
CachedPath(row) == local_path(ServiceImage(row), row.card_name, row.set_code)

NoPath == <<>>

\* The network requests and the delay of one row, in the order they happen:
\* the queries of get_card_data_from_scryfall, the GET of
\* download_and_cache_image, then time.sleep(IMAGE_DOWNLOAD_DELAY).
RowSteps(queries, download) ==
    [i \in 1..queries |-> "query"]
        \o (IF download THEN <<"download">> ELSE <<>>)
        \o <<"sleep">>

write_file_truncated_name(files, path, content) ==
    DictPut(files, SubSeq(path, 1, Len(path) - 1), content)

\* with open(local_path, "wb") as f: f.write(response.content)
write_file(files, path, content) == DictPut(files, path, content)

NoResolve ==
    [row |-> ImageRow(<<>>, <<>>, <<>>), existed |-> FALSE, queries |-> 0,
     image_url |-> NoUrl, download |-> FALSE, stored |-> FALSE, result |-> NoPath,
     steps |-> <<>>]

ImagesInit ==
    /\ imageFiles = EmptyDict
    /\ removedPaths = {}
    /\ imageEvent = "none"
    /\ lastResolve = NoResolve

\* What the reference service does with one query: it answers with a card
\* that has an image, with an empty result, with status 404, with another
\* error status, or the request fails otherwise (a timeout, a payload that
\* is not JSON).
QueryAnswers == {"image", "empty", "404", "http_error", "failure"}

\* get_card_data_from_scryfall, from query i on: the number of the query that
\* answered with an image (0 when none did) and the number of queries issued.
\* An HTTPError whose status is not 404 is raised again and caught outside
\* the loop, which returns not-found; every other miss continues the loop.
RECURSIVE get_card_data_from_scryfall(_, _)
get_card_data_from_scryfall(answers, i) ==
    IF i > Len(answers) THEN [found |-> 0, queries |-> Len(answers)]
    ELSE IF answers[i] = "image" THEN [found |-> i, queries |-> i]
    ELSE IF answers[i] = "http_error" THEN [found |-> 0, queries |-> i]
    ELSE get_card_data_from_scryfall(answers, i + 1)

\* process_shipstation_data, one row: get_card_data_from_scryfall issues its
\* queries in order (answers: what each would be answered), then
\* download_and_cache_image returns the cached file, or downloads it (ok:
\* the GET and the write succeed).
ResolveImage ==
    /\ \E row \in ImageRows, ok \in BOOLEAN :
       \E answers \in [1..QueryCount(row) -> QueryAnswers] :
          /\ LET lookup == get_card_data_from_scryfall(answers, 1)
                 found == lookup.found
                 image_url == IF found = 0 THEN NoUrl ELSE ServiceImage(row)
                 path == local_path(image_url, row.card_name, row.set_code)
                 hit == found # 0 /\ path \in DOMAIN imageFiles
                 download == found # 0 /\ ~hit
                 stored == download /\ ok
             IN  /\ (~download => ok)
                 /\ imageFiles' = IF stored THEN write_file(imageFiles, path, image_url)
                                            ELSE imageFiles
                 /\ lastResolve' =
                        [row |-> row,
                         existed |-> CachedPath(row) \in DOMAIN imageFiles,
                         queries |-> lookup.queries,
                         image_url |-> image_url,
                         download |-> download,
                         stored |-> stored,
                         result |-> IF hit \/ stored THEN path ELSE NoPath,
                         steps |-> RowSteps(lookup.queries, download)]
    /\ imageEvent' = "resolve"
    /\ UNCHANGED <<removedPaths, exceptImage>>

\* A file of card_images/ is deleted from disk, outside the program.
RemoveCachedFile ==
    /\ \E p \in DOMAIN imageFiles :
          /\ imageFiles' = [q \in DOMAIN imageFiles \ {p} |-> imageFiles[q]]
          /\ removedPaths' = removedPaths \cup {p}
    /\ imageEvent' = "remove"
    /\ UNCHANGED <<lastResolve, exceptImage>>

ImagesNext ==
    \/ ResolveImage
    \/ RemoveCachedFile

ImagesIdle ==
    /\ imageFiles = EmptyDict
    /\ removedPaths = {}
    /\ imageEvent = "none"
    /\ lastResolve = NoResolve

-----------------------------------------------------------------------------
(* picklist_gui.py: the price lookup (fetch_card_price,                    *)
(* extract_price_from_data) and its worker threads (load_price_with_delay) *)

\* Prices are counted in hundredths; None is NoPrice.
NoPrice == -1

\* float(s) raised ValueError.
ValueError == -2

\* float(s) for the price strings of the reference service: digits, or digits
\* "." and two digits; anything else raises ValueError.
float(s) ==
    LET dot == LastIndexOf(s, 46)
        AllDigits(t) == t # <<>> /\ \A i \in 1..Len(t) : IsDigit(t[i])
    IN  IF AllDigits(s) THEN 100 * DigitsValue(s)
        ELSE IF /\ dot > 1
                /\ Len(s) = dot + 2
                /\ AllDigits(SubSeq(s, 1, dot - 1))
                /\ AllDigits(SubSeq(s, dot + 1, Len(s)))
             THEN 100 * DigitsValue(SubSeq(s, 1, dot - 1)) + DigitsValue(SubSeq(s, dot + 1, Len(s)))
             ELSE ValueError

\* for price_type in ['usd', 'usd_foil', 'eur', 'eur_foil']
PriceTypes == <<"usd", "usd_foil", "eur", "eur_foil">>

\* bool(price) for price None or a float.
Truthy(price) == price # NoPrice /\ price # 0

\* extract_price_from_data(data), prices being data.get('prices', {}) with
\* null held as the empty string: the first populated field, as a float;
\* None when no field is populated or float() raises.
extract_price_from_data(prices) ==
    LET populated == {i \in 1..Len(PriceTypes) :
                         PriceTypes[i] \in DOMAIN prices /\ prices[PriceTypes[i]] # <<>>}
    IN  IF populated = {} THEN NoPrice
        ELSE LET i == CHOOSE k \in populated : \A j \in populated : k <= j
                 v == float(prices[PriceTypes[i]])
             IN  IF v = ValueError THEN NoPrice ELSE v

s150 == <<49, 46, 53, 48>>   \* "1.50"
s000 == <<48, 46, 48, 48>>   \* "0.00"

\* What a GET of the reference service can end in: no usable answer (a status
\* other than 200, a timeout, a transport error, a body that is not JSON), or
\* status 200 with one of these `prices` objects.
PricePayloads ==
    { [usd |-> s150, usd_foil |-> s000],
      [usd |-> <<>>, usd_foil |-> s150],
      [usd |-> s000],
      [usd |-> <<>>, eur |-> <<120>>],
      EmptyDict }

Responses ==
    {[ok |-> FALSE, prices |-> EmptyDict]} \cup {[ok |-> TRUE, prices |-> p] : p \in PricePayloads}

\* The cards of the picklist, as far as the lookup is concerned: "Ab" and
\* "ab " of set S number 1, "Ab" of set S without a collector number, and a
\* row without a name and without a collector number.
PriceCard(name, set_code, collector_number) ==
    [name |-> name, set_code |-> set_code, collector_number |-> collector_number]

PriceCards ==
    { PriceCard(<<65, 98>>, <<83>>, <<49>>),
      PriceCard(<<97, 98, 32>>, <<83>>, <<49>>),
      PriceCard(<<65, 98>>, <<83>>, <<>>),
      PriceCard(<<>>, <<83>>, <<>>) }

\* cache_key = f"{card['set_code']}_{card['collector_number']}_{card['name']}"
cache_key(card) == card.set_code \o <<95>> \o card.collector_number \o <<95>> \o card.name

sna == <<110, 47, 97>>   \* "n/a"

\* if set_code and collector_number and set_code != 'n/a' and collector_number != 'n/a'
ExactEligible(card) ==
    /\ Lower(card.set_code) # <<>>
    /\ card.collector_number # <<>>
    /\ Lower(card.set_code) # sna
    /\ card.collector_number # sna

\* if card_name and card_name != 'N/A'
FuzzyEligible(card) == card.name # <<>> /\ card.name # sNA

MaxWorkers == 2

Workers == 1..MaxWorkers

IdleWorker ==
    [pc |-> "idle", card |-> PriceCard(<<>>, <<>>, <<>>), price |-> NoPrice,
     calls |-> <<>>, exact |-> NoPrice, hit |-> FALSE, late |-> FALSE,
     result |-> NoPrice]

PricesInit ==
    /\ price_cache = EmptyDict
    /\ workers = [w \in Workers |-> IdleWorker]
    /\ firstReturned = EmptyDict

\* load_price_with_delay -> fetch_card_price, up to the cache test: a hit
\* returns the cached value, a miss goes on to the exact step.
StartFetch(w) ==
    /\ workers[w].pc \in {"idle", "done"}
    /\ \E card \in PriceCards :
          LET key == cache_key(card)
              late == card \in DOMAIN firstReturned
          IN  IF key \in DOMAIN price_cache
              THEN /\ workers' = [workers EXCEPT ![w] =
                          [pc |-> "done", card |-> card, price |-> price_cache[key],
                           calls |-> <<>>, exact |-> NoPrice, hit |-> TRUE,
                           late |-> late, result |-> price_cache[key]]]
                   /\ firstReturned' = IF late THEN firstReturned
                                       ELSE DictPut(firstReturned, card, price_cache[key])
              ELSE /\ workers' = [workers EXCEPT ![w] =
                          [pc |-> "exact", card |-> card, price |-> NoPrice,
                           calls |-> <<>>, exact |-> NoPrice, hit |-> FALSE,
                           late |-> late, result |-> NoPrice]]
                   /\ UNCHANGED firstReturned
    /\ UNCHANGED <<price_cache, exceptPrice>>

\* fetch_card_price: the exact lookup cards/{set_code}/{collector_number}.
ExactStep(w) ==
    /\ workers[w].pc = "exact"
    /\ IF ExactEligible(workers[w].card)
       THEN \E r \in Responses :
               LET price == IF r.ok THEN extract_price_from_data(r.prices) ELSE NoPrice
               IN  workers' = [workers EXCEPT ![w].pc = "fuzzy",
                                              ![w].price = price,
                                              ![w].exact = price,
                                              ![w].calls = Append(@, "exact")]
       ELSE workers' = [workers EXCEPT ![w].pc = "fuzzy"]
    /\ UNCHANGED <<price_cache, firstReturned, exceptPrice>>

\* fetch_card_price: `if not price:` the fuzzy lookup cards/named?fuzzy=...,
\* then self.price_cache[cache_key] = price and return price.
FuzzyStep(w) ==
    /\ workers[w].pc = "fuzzy"
    /\ \E r \in Responses :
          LET me == workers[w]
              asked == ~Truthy(me.price) /\ FuzzyEligible(me.card)
              price == IF asked /\ r.ok THEN extract_price_from_data(r.prices) ELSE me.price
          IN  /\ (~asked => ~r.ok)
              /\ workers' = [workers EXCEPT ![w].pc = "done",
                                             ![w].price = price,
                                             ![w].calls = IF asked THEN Append(@, "fuzzy") ELSE @,
                                             ![w].result = price]
              /\ price_cache' = DictPut(price_cache, cache_key(me.card), price)
              /\ firstReturned' = IF me.card \in DOMAIN firstReturned THEN firstReturned
                                  ELSE DictPut(firstReturned, me.card, price)
    /\ UNCHANGED exceptPrice

PricesNext ==
    \E w \in Workers :
        \/ StartFetch(w)
        \/ ExactStep(w)
        \/ FuzzyStep(w)

PricesIdle ==
    /\ price_cache = EmptyDict
    /\ workers = <<>>
    /\ firstReturned = EmptyDict

-----------------------------------------------------------------------------
(* picklist_gui.py: the picking progress (load_picklist, display_cards,    *)
(* set_filter, clear_filters, toggle_grabbed, save_progress, load_progress) *)

\* A row of the picklist CSV, as far as the progress is concerned.
PickRow(order, name) == [order |-> order, name |-> name]

\* Order "1" with the cards "a" and "2a", order "12" with the card "a".
PickRows ==
    { PickRow(<<49>>, <<97>>),
      PickRow(<<49>>, <<50, 97>>),
      PickRow(<<49, 50>>, <<97>>) }

MaxPickCards == 2

PickLists == UNION {[1..n -> PickRows] : n \in 0..MaxPickCards}

\* card_key = f"{card['order']}{card['name']}"
card_key(card) == card.order \o card.name

CardKeys == {card_key(r) : r \in PickRows}

\* A progress file: has_states tells whether the JSON object has the key
\* 'card_states'.
Snapshot(has_states, card_states, grabbed) ==
    [has_states |-> has_states, card_states |-> card_states, grabbed_cards |-> grabbed]

\* The progress files a run can find on disk: written by an earlier run for
\* some list, or holding only the list of grabbed keys.
Snapshots ==
    {Snapshot(TRUE, m, {k \in DOMAIN m : m[k]}) :
        m \in UNION {[K -> BOOLEAN] : K \in SUBSET CardKeys}}
    \cup {Snapshot(FALSE, EmptyDict, {})}

\* load_picklist: the card built from a row; it has no 'grabbed_var' before
\* create_modern_card_widget has made a widget for it.
NewCard(row) ==
    [order |-> row.order, name |-> row.name, grabbed |-> FALSE, has_var |-> FALSE]

\* The texts the operator types into the search entry: nothing, or "2".
SearchTexts == {<<>>, <<50>>}

\* search_text in text
Contains(search_text, text) ==
    \E k \in 0..(Len(text) - Len(search_text)) :
        SubSeq(text, k + 1, k + Len(search_text)) = search_text

\* apply_filters: self.filtered_cards, by index.  The rows have an empty Set
\* and Set Code, and the location filter stays "All".
filtered_cards(cs, search) ==
    LET search_text == Lower(search)
    IN  {i \in 1..Len(cs) :
            ~(/\ search_text # <<>>
              /\ ~Contains(search_text, Lower(cs[i].name))
              /\ ~Contains(search_text, <<>>))}

\* display_cards: the cards given a widget, by index: self.filtered_cards if
\* it is not empty, else self.cards; of these every card when no filter is
\* set, else those not grabbed ("remaining") or grabbed ("grabbed").
cards_to_display(cs, filtered, filter) ==
    LET base == IF filtered # {} THEN filtered ELSE 1..Len(cs)
    IN  {i \in base :
            \/ filter \notin {"remaining", "grabbed"}
            \/ filter = "remaining" /\ ~cs[i].grabbed
            \/ filter = "grabbed" /\ cs[i].grabbed}

\* apply_filters -> display_cards: the cards given a widget.
apply_filters(cs, search, filter) ==
    cards_to_display(cs, filtered_cards(cs, search), filter)

\* create_modern_card_widget: card['grabbed_var'] = grabbed_var
WithWidgets(cs, shown) ==
    [i \in 1..Len(cs) |-> IF i \in shown THEN [cs[i] EXCEPT !.has_var = TRUE] ELSE cs[i]]

\* save_progress: {f"{card['order']}{card['name']}": card['grabbed'] for card
\* in self.cards}; of the cards with one key the last gives the value.
card_states_of(cs) ==
    [k \in {card_key(cs[i]) : i \in 1..Len(cs)} |->
        cs[CHOOSE i \in 1..Len(cs) :
              /\ card_key(cs[i]) = k
              /\ \A j \in (i + 1)..Len(cs) : card_key(cs[j]) # k].grabbed]

\* load_progress: the for loop from card i on.  progress_data['card_states']
\* raises KeyError when the file has no such key, card['grabbed_var'] raises
\* KeyError for a card that never had a widget, after card['grabbed'] was set;
\* the exception ends the loop.
RECURSIVE restore_from(_, _, _, _)
restore_from(cs, grabbed, data, i) ==
    IF i > Len(cs) THEN [cards |-> cs, grabbed_cards |-> grabbed, error |-> FALSE]
    ELSE IF ~data.has_states THEN [cards |-> cs, grabbed_cards |-> grabbed, error |-> TRUE]
    ELSE LET key == card_key(cs[i])
         IN  IF key \notin DOMAIN data.card_states
             THEN restore_from(cs, grabbed, data, i + 1)
             ELSE LET value == data.card_states[key]
                      set == [cs EXCEPT ![i].grabbed = value]
                  IN  IF ~cs[i].has_var
                      THEN [cards |-> set, grabbed_cards |-> grabbed, error |-> TRUE]
                      ELSE restore_from(set,
                                        IF value THEN grabbed \cup {key} ELSE grabbed \ {key},
                                        data, i + 1)

ProgressInit ==
    /\ pickCards = <<>>
    /\ grabbed_cards = {}
    /\ current_filter = ""
    /\ search_var = <<>>
    /\ displayed = {}
    /\ progressFile \in Snapshots
    /\ progressEvent = "none"
    /\ progressError = FALSE
    /\ savedCards = <<>>
    /\ resume = "none"

\* load_picklist, then apply_filters -> display_cards.
LoadPicklistForPicking ==
    /\ \E list \in PickLists :
          LET cs == [i \in 1..Len(list) |-> NewCard(list[i])]
              shown == apply_filters(cs, search_var, current_filter)
          IN  /\ pickCards' = WithWidgets(cs, shown)
              /\ displayed' = shown
              /\ resume' = IF /\ resume = "saved"
                              /\ Len(cs) = Len(savedCards)
                              /\ \A i \in 1..Len(cs) : /\ cs[i].order = savedCards[i].order
                                                       /\ cs[i].name = savedCards[i].name
                           THEN "reloaded" ELSE "none"
    /\ grabbed_cards' = {}
    /\ progressEvent' = "load_picklist"
    /\ UNCHANGED <<current_filter, search_var, progressFile, progressError, savedCards,
                   exceptProgress>>

\* The operator types into the search entry: the write to search_var runs
\* apply_filters, which returns at once without cards.
SetSearch ==
    /\ \E text \in SearchTexts :
          /\ search_var' = text
          /\ IF pickCards # <<>>
             THEN LET shown == apply_filters(pickCards, text, current_filter)
                  IN  /\ pickCards' = WithWidgets(pickCards, shown)
                      /\ displayed' = shown
             ELSE UNCHANGED <<pickCards, displayed>>
    /\ progressEvent' = "search"
    /\ UNCHANGED <<grabbed_cards, current_filter, progressFile, progressError, savedCards,
                   resume, exceptProgress>>

\* set_filter("remaining") and set_filter("grabbed"); set_filter("all") leaves
\* current_filter as it is.  search_var.set("") renders the cards under the
\* filter still in force before current_filter is assigned and apply_filters
\* renders them again.
SetFilter ==
    /\ \E filter_type \in {"all", "remaining", "grabbed"} :
          /\ search_var' = <<>>
          /\ current_filter' = IF filter_type = "all" THEN current_filter ELSE filter_type
          /\ IF pickCards # <<>>
             THEN LET first == apply_filters(pickCards, <<>>, current_filter)
                      shown == apply_filters(pickCards, <<>>, current_filter')
                  IN  /\ pickCards' = WithWidgets(WithWidgets(pickCards, first), shown)
                      /\ displayed' = shown
             ELSE UNCHANGED <<pickCards, displayed>>
          /\ progressEvent' = IF filter_type = "all" THEN "set_filter_all" ELSE "set_filter"
    /\ UNCHANGED <<grabbed_cards, progressFile, progressError, savedCards, resume,
                   exceptProgress>>

\* clear_filters: the writes to search_var, location_var and sort_var render
\* the cards under the filter still in force, then current_filter = "" and
\* apply_filters.
ClearFilters ==
    /\ search_var' = <<>>
    /\ current_filter' = ""
    /\ IF pickCards # <<>>
       THEN LET first == apply_filters(pickCards, <<>>, current_filter)
                shown == apply_filters(pickCards, <<>>, "")
            IN  /\ pickCards' = WithWidgets(WithWidgets(pickCards, first), shown)
                /\ displayed' = shown
       ELSE UNCHANGED <<pickCards, displayed>>
    /\ progressEvent' = "clear_filters"
    /\ UNCHANGED <<grabbed_cards, progressFile, progressError, savedCards, resume,
                   exceptProgress>>

\* The operator clicks the check button of a displayed card:
\* toggle_grabbed(card, grabbed_var.get()).
ToggleGrabbed ==
    /\ \E i \in displayed :
          LET grabbed == ~pickCards[i].grabbed
              key == card_key(pickCards[i])
          IN  /\ pickCards' = [pickCards EXCEPT ![i].grabbed = grabbed]
              /\ grabbed_cards' = IF grabbed THEN grabbed_cards \cup {key}
                                             ELSE grabbed_cards \ {key}
    /\ progressEvent' = "toggle_grabbed"
    /\ resume' = "none"
    /\ UNCHANGED <<current_filter, search_var, displayed, progressFile, progressError,
                   savedCards, exceptProgress>>

\* save_progress: nothing is written when no cards are loaded.
SaveProgress ==
    /\ pickCards # <<>>
    /\ progressFile' = Snapshot(TRUE, card_states_of(pickCards), grabbed_cards)
    /\ savedCards' = pickCards
    /\ resume' = "saved"
    /\ progressEvent' = "save_progress"
    /\ UNCHANGED <<pickCards, grabbed_cards, current_filter, search_var, displayed,
                   progressError, exceptProgress>>

\* load_progress: the loop, then display_cards unless an exception ended it.
LoadProgress ==
    /\ LET r == restore_from(pickCards, grabbed_cards, progressFile, 1)
           shown == cards_to_display(r.cards, filtered_cards(r.cards, search_var),
                                     current_filter)
       IN  /\ grabbed_cards' = r.grabbed_cards
           /\ progressError' = r.error
           /\ IF r.error
              THEN pickCards' = r.cards /\ UNCHANGED displayed
              ELSE pickCards' = WithWidgets(r.cards, shown) /\ displayed' = shown
    /\ resume' = IF resume = "reloaded" THEN "restored" ELSE "none"
    /\ progressEvent' = "load_progress"
    /\ UNCHANGED <<current_filter, search_var, progressFile, savedCards, exceptProgress>>

\* The GUI while the operator picks, pauses and resumes, the search entry
\* left empty.
ProgressNext ==
    \/ LoadPicklistForPicking
    \/ SetFilter
    \/ ClearFilters
    \/ ToggleGrabbed
    \/ SaveProgress
    \/ LoadProgress

\* The GUI while the operator browses the cards: searches, filters, picks.
FiltersNext ==
    \/ LoadPicklistForPicking
    \/ SetSearch
    \/ SetFilter
    \/ ClearFilters
    \/ ToggleGrabbed

\* PicklistGUI.__init__; no progress file is used.
FiltersInit ==
    /\ pickCards = <<>>
    /\ grabbed_cards = {}
    /\ current_filter = ""
    /\ search_var = <<>>
    /\ displayed = {}
    /\ progressFile = Snapshot(FALSE, EmptyDict, {})
    /\ progressEvent = "none"
    /\ progressError = FALSE
    /\ savedCards = <<>>
    /\ resume = "none"

ProgressIdle ==
    /\ pickCards = <<>>
    /\ grabbed_cards = {}
    /\ current_filter = ""
    /\ search_var = <<>>
    /\ displayed = {}
    /\ progressFile = Snapshot(FALSE, EmptyDict, {})
    /\ progressEvent = "none"
    /\ progressError = FALSE
    /\ savedCards = <<>>
    /\ resume = "none"

-----------------------------------------------------------------------------
(* picklist_gui.py: the card widgets and their background workers          *)
(* (display_cards, create_modern_card_widget, load_with_delay,             *)
(* load_price_with_delay, load_card_image, update_image_label,             *)
(* update_price_label).  One card is loaded; every display_cards destroys  *)
(* its widget and makes a new one, with an image label and a price label   *)
(* and a worker thread for each.                                           *)

MaxRenders == 3

LabelKinds == {"image", "price"}

\* The label of one kind made by the render'th display_cards.
Label(render, kind) == [render |-> render, kind |-> kind]

\* label.winfo_exists(), live being the number of display_cards calls so far:
\* the labels of the latest call exist, those of the earlier ones were
\* destroyed.
winfo_exists(label, live) == label.render = live

\* A callback given to root.after: update_image_label or update_price_label
\* on a label, or a lambda that calls label.config; path tells which branch
\* of the worker scheduled it.
Callback(fn, label, path) == [fn |-> fn, label |-> label, path |-> path]

\* A label.config(...) call: the label, the branch that caused it, the
\* thread that executed it, and whether the label still existed.
Mutation(label, path, thread, existed) ==
    [label |-> label, path |-> path, thread |-> thread, existed |-> existed]

\* The body of a callback, executed by a thread: update_image_label and
\* update_price_label call label.config if label.winfo_exists(); the lambdas
\* of the not-found and error branches call image_label.config.
run_callback(done, cb, thread, live) ==
    IF cb.fn = "config"
    THEN done \cup {Mutation(cb.label, cb.path, thread, winfo_exists(cb.label, live))}
    ELSE IF winfo_exists(cb.label, live)
         THEN done \cup {Mutation(cb.label, cb.path, thread, TRUE)}
         ELSE done

root_after_runs_it_at_once(tk, cb, live) ==
    [queue |-> tk.queue, done |-> run_callback(tk.done, cb, "worker", live)]

\* self.root.after(0, callback), called by a worker: the callback joins the
\* queue of the interface thread; no widget is touched.
root_after(tk, cb, live) ==
    [queue |-> Append(tk.queue, cb), done |-> tk.done]

Loader(label, pc) == [label |-> label, pc |-> pc]

\* The key of the one card in self.image_cache.
ImageKey == "card"

\* What a lookup ends with: load_card_image finds an image, finds none or
\* raises; fetch_card_price returns a price or None.
LookupOutcomes(kind) ==
    IF kind = "image" THEN {"success", "not_found", "error"} ELSE {"price", "price_na"}

WidgetsInit ==
    /\ renders = 0
    /\ loaders = {}
    /\ afterQueue = <<>>
    /\ image_cache = {}
    /\ mutations = {}

\* display_cards: the widgets are destroyed, create_modern_card_widget makes
\* the labels and starts load_with_delay and load_price_with_delay.
DisplayCards ==
    /\ renders < MaxRenders
    /\ renders' = renders + 1
    /\ loaders' = loaders \cup {Loader(Label(renders + 1, kind), "sleep") : kind \in LabelKinds}
    /\ UNCHANGED <<afterQueue, image_cache, mutations, exceptWidgets>>

\* load_with_delay and load_price_with_delay after time.sleep: the thread
\* ends if the label is gone; load_card_image hands over the cached image;
\* else the lookup starts.
LoaderWakes(t) ==
    /\ t \in loaders
    /\ t.pc = "sleep"
    /\ IF ~winfo_exists(t.label, renders)
       THEN /\ loaders' = loaders \ {t}
            /\ UNCHANGED <<afterQueue, mutations>>
       ELSE IF t.label.kind = "image" /\ ImageKey \in image_cache
       THEN LET tk == root_after([queue |-> afterQueue, done |-> mutations],
                                 Callback("update_image_label", t.label, "cached"), renders)
            IN  /\ afterQueue' = tk.queue
                /\ mutations' = tk.done
                /\ loaders' = loaders \ {t}
       ELSE /\ loaders' = (loaders \ {t}) \cup {Loader(t.label, "lookup")}
            /\ UNCHANGED <<afterQueue, mutations>>
    /\ UNCHANGED <<renders, image_cache, exceptWidgets>>

\* The lookup of a worker ends and the worker hands its result over:
\* update_image_label after a download (the image is cached),
\* image_label.config on the not-found and on the error branch,
\* update_price_label with the price or with "Price N/A".
LoaderFinishes(t) ==
    /\ t \in loaders
    /\ t.pc = "lookup"
    /\ \E outcome \in LookupOutcomes(t.label.kind) :
          LET fn == IF t.label.kind = "price" THEN "update_price_label"
                    ELSE IF outcome = "success" THEN "update_image_label"
                    ELSE "config"
              tk == root_after([queue |-> afterQueue, done |-> mutations],
                               Callback(fn, t.label, outcome), renders)
          IN  /\ afterQueue' = tk.queue
              /\ mutations' = tk.done
              /\ image_cache' = IF outcome = "success" THEN image_cache \cup {ImageKey}
                                                       ELSE image_cache
    /\ loaders' = loaders \ {t}
    /\ UNCHANGED <<renders, exceptWidgets>>

\* The interface thread runs the callback at the head of its queue.
RunCallback ==
    /\ afterQueue # <<>>
    /\ mutations' = run_callback(mutations, Head(afterQueue), "main", renders)
    /\ afterQueue' = Tail(afterQueue)
    /\ UNCHANGED <<renders, loaders, image_cache, exceptWidgets>>

WidgetsNext ==
    \/ DisplayCards
    \/ \E t \in loaders : LoaderWakes(t)
    \/ \E t \in loaders : LoaderFinishes(t)
    \/ RunCallback

WidgetsIdle ==
    /\ renders = 0
    /\ loaders = {}
    /\ afterQueue = <<>>
    /\ image_cache = {}
    /\ mutations = {}

-----------------------------------------------------------------------------
(* quick_fulfillment_updater.py: main and update_order_status.  main calls *)
(* get_unfulfilled_orders, lists the orders and asks the operator for the  *)
(* action, the orders, the tracking number and a confirmation.             *)

MaxUpdaterRows == 4

\* str.split(sep) for a one-character separator.
RECURSIVE split(_, _)
split(s, sep) ==
    IF sep \notin Range(s) THEN <<s>>
    ELSE LET k == CHOOSE i \in 1..Len(s) : s[i] = sep /\ \A j \in 1..(i - 1) : s[j] # sep
         IN  <<SubSeq(s, 1, k - 1)>> \o split(SubSeq(s, k + 1, Len(s)), sep)

\* str.split(): the pieces between blanks, without the empty ones.
split_blanks(s) == SelectSeq(split(s, 32), LAMBDA piece : piece # <<>>)

\* int(s) returns for a non-empty string of digits and raises ValueError for
\* the empty string and for a string with a letter.
int_ok(s) == s # <<>> /\ \A i \in 1..Len(s) : IsDigit(s[i])

\* One part of the choice: "a-b" adds range(a, b + 1), "n" adds n.  The
\* unpacking `start, end = part.split('-')` is outside the try and raises
\* ValueError unless there are two pieces.
parse_part(part) ==
    IF 45 \in Range(part)
    THEN LET pieces == split(part, 45)
         IN  IF Len(pieces) # 2 THEN [status |-> "raised", values |-> {}]
             ELSE IF int_ok(pieces[1]) /\ int_ok(pieces[2])
                  THEN [status |-> "ok",
                        values |-> DigitsValue(pieces[1])..DigitsValue(pieces[2])]
                  ELSE [status |-> "invalid", values |-> {}]
    ELSE IF int_ok(part) THEN [status |-> "ok", values |-> {DigitsValue(part)}]
         ELSE [status |-> "invalid", values |-> {}]

\* for part in choice.split(): the loop from part i on, selected so far.
RECURSIVE parse_parts(_, _, _)
parse_parts(parts, i, selected_so_far) ==
    IF i > Len(parts) THEN [status |-> "ok", values |-> selected_so_far]
    ELSE LET p == parse_part(parts[i])
         IN  IF p.status # "ok" THEN p
             ELSE parse_parts(parts, i + 1, selected_so_far \cup p.values)

\* Lines 125-144: the set of the indices chosen, then those in
\* 1..len(orders).
select_orders(choice, count) ==
    LET parsed == IF choice = <<97, 108, 108>>
                  THEN [status |-> "ok", values |-> 1..count]
                  ELSE parse_parts(split_blanks(choice), 1, {})
    IN  [status |-> parsed.status,
         values |-> {s \in parsed.values : 1 <= s /\ s <= count}]

sorted_descending(S) ==
    LET n == Cardinality(S)
    IN  [k \in 1..n |-> CHOOSE x \in S : Cardinality({y \in S : y > x}) = k - 1]

\* sorted(selected)
sorted(S) ==
    LET n == Cardinality(S)
    IN  [k \in 1..n |-> CHOOSE x \in S : Cardinality({y \in S : y < x}) = k - 1]

\* What the operator answers to "Choice (1/2/q)".
ActionTexts == {"1", "2", "q", "x"}

\* What the operator answers to "Orders to mark": q, all, nothing, 2, 1 3,
\* 3 1 1, 1-2, 2-4 1, 0 5, x, 3-1, 1-x, 1-2-3, ALL.
ChoiceTexts ==
    { <<113>>, <<97, 108, 108>>, <<>>, <<50>>, <<49, 32, 51>>,
      <<51, 32, 49, 32, 49>>, <<49, 45, 50>>, <<50, 45, 52, 32, 49>>,
      <<48, 32, 53>>, <<120>>, <<51, 45, 49>>, <<49, 45, 120>>,
      <<49, 45, 50, 45, 51>>, <<65, 76, 76>> }

\* The statuses of the rows of the marketplace while the updater runs.
UpdaterStatuses == {"unfulfilled", "shipped"}

\* What a PUT ends with: status 200, another status, an exception.
PutOutcomes == {"200", "500", "raised"}

UpdaterInit ==
    /\ credentials = TRUE
    /\ serverRows \in 0..MaxUpdaterRows
    /\ statusCycle \in [1..2 -> UpdaterStatuses]
    /\ offset = 0
    /\ orders = <<>>
    /\ requests = <<>>
    /\ examined = <<>>
    /\ fetchPc = "start"
    /\ mainPc = "fetching"
    /\ new_status = NoneVal
    /\ selected = {}
    /\ tracking = NoneVal
    /\ confirm = NoneVal
    /\ pending = <<>>
    /\ success = 0
    /\ failed = 0
    /\ putRequests = <<>>

\* Lines 81-99: get_unfulfilled_orders has returned; without orders main
\* returns, else the orders and the menu are printed.
ListOrders ==
    /\ mainPc = "fetching"
    /\ fetchPc = "returned"
    /\ mainPc' = IF orders = <<>> THEN "returned" ELSE "menu"
    /\ UNCHANGED <<new_status, selected, tracking, confirm, pending, success, failed,
                   putRequests, exceptUpdater>>

\* Lines 101-110: the action.
ChooseAction ==
    /\ mainPc = "menu"
    /\ \E action \in ActionTexts :
          IF action \in {"1", "2"}
          THEN /\ new_status' = IF action = "1" THEN "processing" ELSE "shipped"
               /\ mainPc' = "select"
          ELSE /\ mainPc' = "returned"
               /\ UNCHANGED new_status
    /\ UNCHANGED <<selected, tracking, confirm, pending, success, failed, putRequests,
                   exceptUpdater>>

\* Lines 120-147: the orders.
ChooseOrders ==
    /\ mainPc = "select"
    /\ \E text \in ChoiceTexts :
          LET choice == Lower(text)
              chosen == select_orders(choice, Len(orders))
          IN  IF choice = <<113>> THEN mainPc' = "returned" /\ UNCHANGED selected
              ELSE IF chosen.status = "raised" THEN mainPc' = "crashed" /\ UNCHANGED selected
              ELSE IF chosen.status = "invalid" \/ chosen.values = {}
                   THEN mainPc' = "returned" /\ UNCHANGED selected
              ELSE mainPc' = "confirm" /\ selected' = chosen.values
    /\ UNCHANGED <<new_status, tracking, confirm, pending, success, failed, putRequests,
                   exceptUpdater>>

\* Lines 149-166: the tracking number, asked for when marking as shipped,
\* and the confirmation.
Confirm ==
    /\ mainPc = "confirm"
    /\ \E number \in {"", "TRACK1"} :
          tracking' = IF new_status = "shipped" /\ number # "" THEN number ELSE NoneVal
    /\ \E answer \in {"y", "n", ""} :
          /\ confirm' = answer
          /\ IF answer # "y"
             THEN mainPc' = "returned" /\ UNCHANGED pending
             ELSE mainPc' = "updating" /\ pending' = sorted(selected)
    /\ UNCHANGED <<new_status, selected, success, failed, putRequests, exceptUpdater>>

\* Lines 168-175, one iteration: update_order_status issues the PUT and
\* returns whether it was answered with status 200; an exception gives False.
UpdateOrder ==
    /\ mainPc = "updating"
    /\ pending # <<>>
    /\ \E outcome \in PutOutcomes :
          LET idx == Head(pending)
              order == orders[idx]
              updated == outcome = "200"
          IN  /\ putRequests' = Append(putRequests,
                                       [idx |-> idx, order_id |-> order.id,
                                        status |-> new_status,
                                        tracking_number |-> tracking,
                                        outcome |-> outcome])
              /\ success' = IF updated THEN success + 1 ELSE success
              /\ failed' = IF updated THEN failed ELSE failed + 1
    /\ pending' = Tail(pending)
    /\ mainPc' = IF Tail(pending) = <<>> THEN "done" ELSE "updating"
    /\ UNCHANGED <<new_status, selected, tracking, confirm, exceptUpdater>>

UpdaterNext ==
    \/ FetchNext
    \/ ListOrders
    \/ ChooseAction
    \/ ChooseOrders
    \/ Confirm
    \/ UpdateOrder

UpdaterIdle ==
    /\ mainPc = "idle"
    /\ new_status = NoneVal
    /\ selected = {}
    /\ tracking = NoneVal
    /\ confirm = NoneVal
    /\ pending = <<>>
    /\ success = 0
    /\ failed = 0
    /\ putRequests = <<>>

-----------------------------------------------------------------------------
(* Specifications: one per program *)

\* manapoolsheet.py, sorting with any --sort-by.
InitSort ==
    SortInit /\ FetchIdle /\ LocationsIdle /\ ImagesIdle /\ PricesIdle /\ ProgressIdle
        /\ WidgetsIdle /\ UpdaterIdle

SpecSort == InitSort /\ [][SortNext]_vars

\* manapoolsheet.py, sorting with --sort-by location.
InitSortLocation ==
    SortLocationInit /\ FetchIdle /\ LocationsIdle /\ ImagesIdle /\ PricesIdle /\ ProgressIdle
        /\ WidgetsIdle /\ UpdaterIdle

SpecSortLocation == InitSortLocation /\ [][SortLocationNext]_vars

\* quick_fulfillment_updater.py.
InitOrders ==
    FetchInit /\ SortIdle /\ LocationsIdle /\ ImagesIdle /\ PricesIdle /\ ProgressIdle
        /\ WidgetsIdle /\ UpdaterIdle

SpecOrders == InitOrders /\ [][FetchNext]_vars

\* The location mapping of picklist_gui.py and of manapoolsheet.py.
InitLocations ==
    LocationsInit /\ SortIdle /\ FetchIdle /\ ImagesIdle /\ PricesIdle /\ ProgressIdle
        /\ WidgetsIdle /\ UpdaterIdle

SpecLocations == InitLocations /\ [][LocationsNext]_vars

\* The image cache of manapoolsheet.py.
InitImages ==
    ImagesInit /\ SortIdle /\ FetchIdle /\ LocationsIdle /\ PricesIdle /\ ProgressIdle
        /\ WidgetsIdle /\ UpdaterIdle

SpecImages == InitImages /\ [][ImagesNext]_vars

\* The price lookup of picklist_gui.py.
InitPrices ==
    PricesInit /\ SortIdle /\ FetchIdle /\ LocationsIdle /\ ImagesIdle /\ ProgressIdle
        /\ WidgetsIdle /\ UpdaterIdle

SpecPrices == InitPrices /\ [][PricesNext]_vars

\* The picking progress of picklist_gui.py.
InitProgress ==
    ProgressInit /\ SortIdle /\ FetchIdle /\ LocationsIdle /\ ImagesIdle /\ PricesIdle
        /\ WidgetsIdle /\ UpdaterIdle

SpecProgress == InitProgress /\ [][ProgressNext]_vars

\* picklist_gui.py, searching and filtering the cards.
InitFilters ==
    FiltersInit /\ SortIdle /\ FetchIdle /\ LocationsIdle /\ ImagesIdle /\ PricesIdle
        /\ WidgetsIdle /\ UpdaterIdle

\* picklist_gui.py, the card widgets and their worker threads.
InitWidgets ==
    WidgetsInit /\ SortIdle /\ FetchIdle /\ LocationsIdle /\ ImagesIdle /\ PricesIdle
        /\ ProgressIdle /\ UpdaterIdle

SpecWidgets == InitWidgets /\ [][WidgetsNext]_vars

\* quick_fulfillment_updater.py, main.
InitUpdater ==
    UpdaterInit /\ SortIdle /\ LocationsIdle /\ ImagesIdle /\ PricesIdle /\ ProgressIdle
        /\ WidgetsIdle

SpecUpdater == InitUpdater /\ [][UpdaterNext]_vars

SpecFilters == InitFilters /\ [][FiltersNext]_vars

-----------------------------------------------------------------------------
(* Claims about get_unfulfilled_orders *)

\* Every request so far was answered with the page it asked for.
AllPagesServed == \A k \in 1..Len(requests) : requests[k][2] = "ok"

AcceptedStatuses == {NoneVal, "", "processing", "unfulfilled"}

\* The number of rows of the marketplace whose status passes the filter.
Available == Cardinality({i \in 1..serverRows : StatusOf(i) \in AcceptedStatuses})

\* C5: the offsets requested are 0, 100, 200, ... in this order; a run over a
\* source of N rows that serves every page returns after exactly
\* floor(N/100)+1 requests, having examined each of the N rows exactly once.
C5_PagesInOrderUntilShortPage ==
    /\ \A k \in 1..Len(requests) : requests[k][1] = 100 * (k - 1)
    /\ (fetchPc = "returned" /\ AllPagesServed) =>
          /\ Len(requests) = (serverRows \div 100) + 1
          /\ examined = [i \in 1..serverRows |-> i]

\* The run of the example: 101 rows, returned after two served pages.
C5_Witness ==
    /\ fetchPc = "returned"
    /\ AllPagesServed
    /\ serverRows = 101
    /\ Len(requests) = 2
    /\ Len(examined) = 101

\* C6: with a most-recent-N bound (N = 20, as in the example) the retriever
\* returns exactly min(N, available) orders and requests no page after the one
\* on which the accumulated count reached N.
C6_TruncatedToMostRecent ==
    (fetchPc = "returned" /\ AllPagesServed) =>
        /\ Len(orders) = Min(20, Available)
        /\ \A k \in 1..(Len(requests) - 1) :
              Cardinality({i \in 1..Min(serverRows, 100 * k) :
                              StatusOf(i) \in AcceptedStatuses}) < 20

\* C7: at every moment the accumulated orders are exactly the examined rows
\* whose status is absent, empty, 'processing' or 'unfulfilled', in the order
\* examined; no row whose status is 'shipped' is among them.
C7_StatusFilter ==
    /\ [k \in 1..Len(orders) |-> orders[k].id]
          = SelectSeq(examined, LAMBDA i : StatusOf(i) \in AcceptedStatuses)
    /\ \A k \in 1..Len(orders) : StatusOf(orders[k].id) # "shipped"

\* A returned run of more than one page that examined a shipped row and kept
\* a row without status.
C7_Witness ==
    /\ fetchPc = "returned"
    /\ Len(requests) >= 2
    /\ \E k \in 1..Len(examined) : StatusOf(examined[k]) = "shipped"
    /\ \E k \in 1..Len(orders) : StatusOf(orders[k].id) = NoneVal /\ orders[k].status = "unfulfilled"

\* C8: the run exits abnormally only for missing credentials or for a failure
\* of the first page.
C8_OnlyFirstPageFailureIsFatal ==
    fetchPc = "exit" => (~credentials \/ Len(requests) = 1)

-----------------------------------------------------------------------------
(* Claims about the location mapping *)

\* C9: a set code whose group key (the set code in upper case) is present in
\* the loaded mapping resolves to the mapped label, in the report generator
\* and in the picklist loader.
C9_MappedSetCodeResolves ==
    /\ cliPc = "processed" =>
          \A k \in 1..Len(cliCards) :
              Upper(cliCards[k].set_code) \in DOMAIN drawer_mapping
                  => cliCards[k].location = drawer_mapping[Upper(cliCards[k].set_code)]
    /\ guiEvent = "load_picklist" =>
          \A k \in 1..Len(guiCards) :
              Upper(guiCards[k].set_code) \in DOMAIN locations
                  => guiCards[k].location = locations[Upper(guiCards[k].set_code)]

\* C10: every persisted key is upper case, the mapping holds no two keys that
\* differ only in letter case, and a card whose set code was given a label
\* through Manage Locations (in any letter case) carries that label, in this
\* run and after the file is read again and the picklist loaded again.
C10_AssignmentReusedWhateverTheCase ==
    /\ \A k \in DOMAIN locationsFile.content : k = Upper(k)
    /\ \A k1, k2 \in DOMAIN locations : Upper(k1) = Upper(k2) => k1 = k2
    /\ \A k \in 1..Len(guiCards) :
          Upper(guiCards[k].set_code) \in DOMAIN lastSaved
              => guiCards[k].location = lastSaved[Upper(guiCards[k].set_code)]

\* C11: locations.json is written only in a run during which a new key was
\* assigned: whenever the file has been opened for writing during the run,
\* the mapping holds a key it did not hold when load_locations returned.
C11_WrittenOnlyWhenNewKey ==
    (program = "gui" /\ fileWritten) => DOMAIN locations # loadedKeys

\* C21: a persisted mapping file holding malformed JSON never terminates the
\* run: the report generator goes on past the loading of the drawer mapping,
\* and both loaders yield the empty mapping.
C21_MalformedFileIsTreatedAsEmpty ==
    /\ cliPc # "crashed"
    /\ (cliPc = "mapped" /\ drawerFile.malformed) => drawer_mapping = EmptyDict
    /\ (guiEvent = "init" /\ locationsFile.malformed) => locations = EmptyDict

-----------------------------------------------------------------------------
(* Claims about the image cache *)

\* C12: resolving a row whose image file is cached and exists issues no
\* network call, neither a query of the reference service nor a download,
\* and returns the cached path.
C12_CachedImageNeedsNoNetwork ==
    (imageEvent = "resolve" /\ lastResolve.existed) =>
        /\ lastResolve.queries = 0
        /\ ~lastResolve.download
        /\ lastResolve.result = CachedPath(lastResolve.row)

SameIdentity(r1, r2) ==
    /\ r1.set_code = r2.set_code
    /\ r1.collector_number = r2.collector_number
    /\ sanitize_for_filename(r1.card_name) = sanitize_for_filename(r2.card_name)

\* C14: the file returned for a row was downloaded for the identity of that
\* row: identities that differ in set code, collector number or sanitized
\* name never share a cache file.
C14_CachedFileBelongsToIdentity ==
    (/\ imageEvent = "resolve"
     /\ lastResolve.result # NoPath) =>
        SameIdentity(imageFiles[lastResolve.result].card, lastResolve.row)

\* C22: no two requests to the reference service are issued one after the
\* other without a delay between them, the queries of one row and the
\* download that follows them included.
C22_DelayBetweenRequests ==
    imageEvent = "resolve" =>
        \A i \in 1..(Len(lastResolve.steps) - 1) :
            lastResolve.steps[i] = "sleep" \/ lastResolve.steps[i + 1] = "sleep"

\* C25: a query that fails for any reason is a miss for that step only:
\* whenever get_card_data_from_scryfall returned not-found, every query of
\* build_scryfall_queries had been issued.
C25_EveryQueryTriedBeforeNotFound ==
    (imageEvent = "resolve" /\ lastResolve.image_url = NoUrl) =>
        lastResolve.queries = QueryCount(lastResolve.row)

-----------------------------------------------------------------------------
(* Claims about the price lookup *)

\* C15: a call that misses the cache issues the exact lookup first, issues
\* the fuzzy lookup only when the exact step produced no result, and returns
\* the result of the first step that succeeded, None when both failed.
C15_FirstSuccessWins ==
    \A w \in Workers :
        (workers[w].pc = "done" /\ ~workers[w].hit) =>
            LET me == workers[w]
            IN  /\ me.calls \in {<<>>, <<"exact">>, <<"fuzzy">>, <<"exact", "fuzzy">>}
                /\ ExactEligible(me.card) => (me.calls # <<>> /\ me.calls[1] = "exact")
                /\ me.exact # NoPrice => (me.calls = <<"exact">> /\ me.result = me.exact)
                /\ (me.calls = <<>> \/ me.calls = <<"exact">>) => me.result = me.exact

\* C16: a call that starts after a call for the same card has returned
\* returns the value that call returned and issues no network call.
C16_MemoizedForTheRun ==
    \A w \in Workers :
        (workers[w].pc = "done" /\ workers[w].late) =>
            /\ workers[w].calls = <<>>
            /\ workers[w].result = firstReturned[workers[w].card]

\* str.strip() and the name of a card without its surrounding whitespace and
\* letter case.
RECURSIVE LStrip(_)
LStrip(s) ==
    IF s # <<>> /\ s[1] \in {9, 10, 13, 32} THEN LStrip(SubSeq(s, 2, Len(s))) ELSE s

NormalName(name) == Lower(RStrip(LStrip(name)))

\* The cards c1 and c2 differ at most by whitespace or letter case in the name.
SameNormalizedIdentity(c1, c2) ==
    /\ c1.set_code = c2.set_code
    /\ c1.collector_number = c2.collector_number
    /\ NormalName(c1.name) = NormalName(c2.name)

\* C17: cards that differ only by whitespace or letter case in the name have
\* one cache key, so the cache never holds two entries for them.
C17_OneEntryPerNormalizedIdentity ==
    \A c1, c2 \in PriceCards :
        (/\ SameNormalizedIdentity(c1, c2)
         /\ cache_key(c1) \in DOMAIN price_cache
         /\ cache_key(c2) \in DOMAIN price_cache) =>
            cache_key(c1) = cache_key(c2)

\* C23: no variable is written by two workers and at most one external
\* lookup is issued per identity: no two workers have stored into price_cache
\* for the same card, and no two workers have issued requests for it.
C23_WorkersShareNothing ==
    \A w1, w2 \in Workers :
        (w1 # w2 /\ workers[w1].card = workers[w2].card) =>
            /\ ~(/\ workers[w1].pc = "done" /\ ~workers[w1].hit
                 /\ workers[w2].pc = "done" /\ ~workers[w2].hit)
            /\ ~(workers[w1].calls # <<>> /\ workers[w2].calls # <<>>)

-----------------------------------------------------------------------------
(* Claims about the picking progress *)

\* C18: load_progress of a snapshot that holds card states leaves every
\* loaded card whose key is in the snapshot with the snapshot's value,
\* whatever filter is set and whether or not the card has a widget.
C18_RestoreIsBestEffort ==
    (progressEvent = "load_progress" /\ progressFile.has_states) =>
        \A i \in 1..Len(pickCards) :
            card_key(pickCards[i]) \in DOMAIN progressFile.card_states =>
                pickCards[i].grabbed = progressFile.card_states[card_key(pickCards[i])]

\* C19: after load_progress every loaded card whose key is not in the
\* snapshot is not grabbed.
C19_AbsentKeysAreNotGrabbed ==
    (progressEvent = "load_progress" /\ progressFile.has_states) =>
        \A i \in 1..Len(pickCards) :
            card_key(pickCards[i]) \notin DOMAIN progressFile.card_states =>
                ~pickCards[i].grabbed

\* C20: save_progress, load_picklist of the same list and load_progress of
\* the saved file leave every card's grabbed flag as it was when saved.
C20_PauseAndResumeRoundTrip ==
    resume = "restored" =>
        /\ Len(pickCards) = Len(savedCards)
        /\ \A i \in 1..Len(pickCards) : pickCards[i].grabbed = savedCards[i].grabbed

\* C26: grabbed_cards is exactly the set of the composite keys of the loaded
\* cards whose grabbed flag is true.
C26_GrabbedKeysMatchFlags ==
    grabbed_cards = {card_key(pickCards[i]) : i \in {j \in 1..Len(pickCards) : pickCards[j].grabbed}}

\* C28: every card shown satisfies the search text; when the search text
\* matches no loaded card, no card is shown.
C28_ShownCardsMatchTheSearch ==
    progressEvent \in {"search", "load_picklist", "load_progress"} =>
        displayed \subseteq filtered_cards(pickCards, search_var)

\* C29: after set_filter("all") every loaded card is displayed, whatever
\* its grabbed flag and whatever filter was selected before.
C29_AllShowsEveryCard ==
    progressEvent = "set_filter_all" => displayed = 1..Len(pickCards)

-----------------------------------------------------------------------------
(* Claims about the card widgets and their workers *)

\* C24: every widget mutation caused by a worker's result is executed on the
\* interface thread, from a callback scheduled through root.after, on the
\* success, the not-found and the error path alike.
C24_MutationsOnInterfaceThread ==
    \A m \in mutations : m.thread = "main"

C24_Witness ==
    {"success", "not_found", "error", "price"} \subseteq {m.path : m \in mutations}

\* C30: a callback mutates a widget only if the widget still exists when the
\* callback runs.
C30_CallbacksCheckTheWidget ==
    \A m \in mutations : m.existed

-----------------------------------------------------------------------------
(* Claims about the fulfillment updater *)

\* C27: a status update is requested only after the confirmation was
\* answered with y, only for selected orders with an index in
\* 1..len(orders), each once and in ascending order of index; a failed
\* update does not stop the others, and updated + failed is the number of
\* selected orders.
C27_UpdatesOnlyConfirmedSelection ==
    /\ putRequests # <<>> => confirm = "y"
    /\ \A k \in 1..Len(putRequests) :
          /\ putRequests[k].idx \in selected
          /\ putRequests[k].idx \in 1..Len(orders)
          /\ putRequests[k].order_id = orders[putRequests[k].idx].id
    /\ \A j, k \in 1..Len(putRequests) :
          j < k => putRequests[j].idx < putRequests[k].idx
    /\ success + failed = Len(putRequests)
    /\ mainPc = "done" =>
          /\ {putRequests[k].idx : k \in 1..Len(putRequests)} = selected
          /\ success + failed = Cardinality(selected)

C27_Witness ==
    /\ mainPc = "done"
    /\ Len(putRequests) >= 2
    /\ putRequests[1].outcome # "200"
    /\ putRequests[2].outcome = "200"
    /\ Cardinality(selected) < Len(orders)

-----------------------------------------------------------------------------
(* Claims about sort_cards *)

LocationOf(c) == Catalogue[c].location

\* The sum of the quantity field over the cards of cs at location l.
RECURSIVE AggregateQuantity(_, _)
AggregateQuantity(cs, l) ==
    IF cs = <<>> THEN 0
    ELSE (IF LocationOf(Head(cs)) = l THEN parse_quantity(Catalogue[Head(cs)].quantity) ELSE 0)
         + AggregateQuantity(Tail(cs), l)

LocationDescending == sortPc = "sorted" /\ sortArgs.sort_by = "location" /\ sortArgs.order = "desc"

\* C1: in location-primary descending mode every item whose location has a
\* strictly greater aggregate quantity precedes every item whose location has
\* a smaller aggregate quantity.
C1_GreaterAggregateQuantityFirst ==
    LocationDescending =>
        \A i, j \in 1..Len(cards) :
            AggregateQuantity(cards, LocationOf(cards[i]))
                > AggregateQuantity(cards, LocationOf(cards[j])) => i < j

\* C2: in location-primary mode the items of one location form one contiguous
\* block of the output: no item of another location stands between two items
\* of the same location.
C2_LocationsContiguous ==
    (sortPc = "sorted" /\ sortArgs.sort_by = "location") =>
        \A i, j, k \in 1..Len(cards) :
            (i < j /\ j < k /\ LocationOf(cards[i]) = LocationOf(cards[k]))
                => LocationOf(cards[j]) = LocationOf(cards[i])

\* The levels sort_cards orders by, highest priority first: <<field, reverse>>.
Levels(a) ==
    <<[field |-> a.sort_by, reverse |-> a.order = "desc"]>>
    \o (IF a.secondary_sort # NoneVal
        THEN <<[field |-> a.secondary_sort, reverse |-> a.secondary_order = "desc"]>>
        ELSE <<>>)
    \o (IF a.tertiary_sort # NoneVal
        THEN <<[field |-> a.tertiary_sort, reverse |-> a.tertiary_order = "desc"]>>
        ELSE <<>>)
    \o <<[field |-> "name", reverse |-> FALSE]>>

\* The key of card c at level n of the levels lv, on the list cs; the primary
\* key of the location mode is the location's count.
LevelKey(cs, lv, n, c) ==
    IF n = 1 /\ lv[1].field = "location"
    THEN NumKey(location_counts(cs, LocationOf(c)))
    ELSE get_sort_key(lv[n].field, c)

KeyTuple(cs, lv, c) == [n \in 1..Len(lv) |-> LevelKey(cs, lv, n, c)]

\* The first level at which x and y differ, 0 when they tie on every level.
RECURSIVE FirstDiffFrom(_, _, _, _, _)
FirstDiffFrom(cs, lv, n, x, y) ==
    IF n > Len(lv) THEN 0
    ELSE IF LevelKey(cs, lv, n, x) # LevelKey(cs, lv, n, y) THEN n
    ELSE FirstDiffFrom(cs, lv, n + 1, x, y)

FirstDiff(cs, lv, x, y) == FirstDiffFrom(cs, lv, 1, x, y)

\* x may stand before y: at the first level where they differ, x's key comes
\* first in that level's direction.
InOrder(cs, lv, x, y) ==
    LET n == FirstDiff(cs, lv, x, y)
    IN  n # 0 => Before(LevelKey(cs, lv, n, x), LevelKey(cs, lv, n, y), lv[n].reverse)

Arrangements(s) ==
    {[i \in 1..Len(s) |-> s[f[i]]] :
        f \in {g \in [1..Len(s) -> 1..Len(s)] : \A i, j \in 1..Len(s) : i # j => g[i] # g[j]}}

\* The arrangement of the cards of s in the order of their identities.
CanonicalArrangement(s) ==
    [i \in 1..Len(s) |->
        CHOOSE x \in Range(s) : Cardinality({y \in Range(s) : y < x}) = i - 1]

PositionIn(s, x) == CHOOSE i \in 1..Len(s) : s[i] = x

\* C3 (as claimed): every arrangement of the input multiset sorts to the same
\* sequence, and sorting the output again changes nothing.
C3_SameOutputForEveryArrangement ==
    sortPc = "sorted" =>
        /\ \A p \in Arrangements(sortInput) : sort_cards(p, sortArgs) = cards
        /\ sort_cards(cards, sortArgs) = cards

\* C3 (amended): every arrangement of the input multiset sorts to a sequence
\* with the same keys at every position (each input is compared with the one
\* arrangement of its multiset that every other arrangement is compared with
\* too); items that tie on every key keep the order they had in the input;
\* sorting the output again changes nothing.
C3_DeterministicUpToTies ==
    sortPc = "sorted" =>
        /\ LET out == sort_cards(CanonicalArrangement(sortInput), sortArgs)
           IN  /\ Len(out) = Len(cards)
               /\ \A i \in 1..Len(cards) :
                     KeyTuple(cards, Levels(sortArgs), out[i])
                        = KeyTuple(cards, Levels(sortArgs), cards[i])
        /\ \A i, j \in 1..Len(cards) :
              (i < j /\ FirstDiff(cards, Levels(sortArgs), cards[i], cards[j]) = 0)
                  => PositionIn(sortInput, cards[i]) < PositionIn(sortInput, cards[j])
        /\ sort_cards(cards, sortArgs) = cards

\* Two cards that tie on every key of the call were sorted, from an input
\* of three cards that held them in the order opposite to their identities.
C3_Witness ==
    /\ sortPc = "sorted"
    /\ Len(cards) >= 3
    /\ sortArgs.secondary_sort # NoneVal
    /\ sortInput # CanonicalArrangement(sortInput)
    /\ \E i, j \in 1..Len(cards) :
          /\ i < j
          /\ cards[i] > cards[j]
          /\ FirstDiff(cards, Levels(sortArgs), cards[i], cards[j]) = 0

\* C4: with a non-location primary key the output is ordered lexicographically
\* by (primary, secondary, tertiary, lower-cased name), each level in its own
\* direction: every adjacent pair is in order at its first differing level.
C4_LexicographicByLevels ==
    (sortPc = "sorted" /\ sortArgs.sort_by # "location") =>
        /\ Range(cards) = Range(sortInput)
        /\ Len(cards) = Len(sortInput)
        /\ \A i \in 1..(Len(cards) - 1) : InOrder(cards, Levels(sortArgs), cards[i], cards[i + 1])

\* A call with all three levels given, primary and tertiary descending, whose
\* output holds a pair decided by the tertiary level and a pair decided by
\* the name.
C4_Witness ==
    /\ sortPc = "sorted"
    /\ sortArgs.sort_by \notin {"location", "name"}
    /\ sortArgs.order = "desc"
    /\ sortArgs.secondary_sort \notin {NoneVal, sortArgs.sort_by}
    /\ sortArgs.tertiary_sort \notin {NoneVal, "name", sortArgs.sort_by, sortArgs.secondary_sort}
    /\ sortArgs.tertiary_order = "desc"
    /\ \E i \in 1..(Len(cards) - 1) : FirstDiff(cards, Levels(sortArgs), cards[i], cards[i + 1]) = 3
    /\ \E i \in 1..(Len(cards) - 1) : FirstDiff(cards, Levels(sortArgs), cards[i], cards[i + 1]) = 4

====
